---- MODULE Spec2Model ----
(***************************************************************************)
(* Blackjack rules engine: cards and deck (blackjack/cards.py), hands      *)
(* (blackjack/hand.py), rules and game engine (blackjack/game.py).         *)
(*                                                                         *)
(* Suits are written with the ASCII letters of cli.SUIT_RENDER (S, H, D,   *)
(* C) in place of the four suit symbols of cards.SUITS.  Payouts are kept  *)
(* in tenths of the bet unit, so the float 1.5 is 15, 1.0 is 10, -1.0 is   *)
(* -10 and 0.0 is 0.                                                       *)
(***************************************************************************)
EXTENDS Integers, Sequences, FiniteSets, TLC

VARIABLES deck, player, dealer, rules, result, last_op, pre, deck_io,
          session, calls

vars == <<deck, player, dealer, rules, result, last_op, pre, deck_io,
          session, calls>>

(***************************************************************************)
(* Bounds of the model.                                                    *)
(***************************************************************************)
\* number of distinct outcomes of rng.shuffle the model lets the deck take
NShuffles == 3
\* number of ranks (taken in the order of InputRankOrder) the caller-built
\* hands of a two-hand game use
NInputRanks == 3
\* largest caller-built hand of a two-hand game
MaxHandLen == 3
\* largest hand built card by card with Hand.add, over all thirteen ranks
MaxSoloLen == 4
\* largest deck count passed to Deck(n_decks)
MaxDecks == 2
\* the console session is followed while its bankroll is at most this many
\* units at the test of its loop
MaxCliBankroll == 12
\* rounds dealt in a graphical session before it is reset
MaxGuiRounds == 3
\* bets placed in a graphical session before it is reset
MaxGuiBets == 1

(***************************************************************************)
(* cards.py                                                                *)
(***************************************************************************)
SUITS == <<"S", "H", "D", "C">>

RANKS == <<"A", "2", "3", "4", "5", "6", "7", "8", "9", "10", "J", "Q", "K">>

RankSet == {RANKS[i] : i \in 1..Len(RANKS)}

VALUES_AceLow ==
    ("2" :> 2) @@ ("3" :> 3) @@ ("4" :> 4) @@ ("5" :> 5) @@ ("6" :> 6) @@
    ("7" :> 7) @@ ("8" :> 8) @@ ("9" :> 9) @@ ("10" :> 10) @@
    ("J" :> 10) @@ ("Q" :> 10) @@ ("K" :> 10) @@ ("A" :> 1)

VALUES_FaceEleven ==
    ("2" :> 2) @@ ("3" :> 3) @@ ("4" :> 4) @@ ("5" :> 5) @@ ("6" :> 6) @@
    ("7" :> 7) @@ ("8" :> 8) @@ ("9" :> 9) @@ ("10" :> 10) @@
    ("J" :> 11) @@ ("Q" :> 11) @@ ("K" :> 11) @@ ("A" :> 11)

VALUES ==
    ("2" :> 2) @@ ("3" :> 3) @@ ("4" :> 4) @@ ("5" :> 5) @@ ("6" :> 6) @@
    ("7" :> 7) @@ ("8" :> 8) @@ ("9" :> 9) @@ ("10" :> 10) @@
    ("J" :> 10) @@ ("Q" :> 10) @@ ("K" :> 10) @@ ("A" :> 11)

Card(r, s) == [rank |-> r, suit |-> s]

\* [Card(r, s) for _ in range(n_decks) for s in SUITS for r in RANKS]
BuildDeck(n) ==
    [i \in 1..(n * Len(SUITS) * Len(RANKS)) |->
        Card(RANKS[((i - 1) % Len(RANKS)) + 1],
             SUITS[(((i - 1) \div Len(RANKS)) % Len(SUITS)) + 1])]

\* rng.shuffle: the k-th of the permutations the model lets the generator
\* produce.  Position i receives the card at (m*(i-1) + 17*k) mod n, with m odd
\* and no multiple of 13, hence coprime to n = 52 * n_decks: a permutation.
ShuffleMul(k) ==
    LET m == 2 * k + 1 IN IF m % 13 = 0 THEN m + 2 ELSE m

Shuffle(seq, k) ==
    LET n == Len(seq) IN
    [i \in 1..n |-> seq[((ShuffleMul(k) * (i - 1) + 17 * k) % n) + 1]]

\* Deck._build_and_shuffle
build_and_shuffle(d, k) ==
    [d EXCEPT !.cards = Shuffle(BuildDeck(d.n_decks), k)]

\* Deck.__init__ keeping the deck count it is given
NewDeck_NoClamp(n, k) ==
    build_and_shuffle([n_decks |-> n, cards |-> <<>>], k)

\* Deck.__init__
NewDeck(n, k) ==
    build_and_shuffle([n_decks |-> IF n > 1 THEN n ELSE 1, cards |-> <<>>], k)

\* what list.pop() does on an empty list in place of returning a card
IndexError == [rank |-> "IndexError", suit |-> "IndexError"]

\* draw without the rebuilds: the pop alone
draw_NoRebuild(d, k) ==
    LET n == Len(d.cards)
    IN  [card |-> IF n = 0 THEN IndexError ELSE d.cards[n],
         deck |-> [d EXCEPT !.cards = SubSeq(d.cards, 1, n - 1)]]

\* draw rebuilding at a quarter of the deck or less
draw_RebuildAtQuarter(d, k) ==
    LET d1 == IF Len(d.cards) = 0 THEN build_and_shuffle(d, k) ELSE d
        d2 == IF 4 * Len(d1.cards) <= d1.n_decks * 52
              THEN build_and_shuffle(d1, k) ELSE d1
        n  == Len(d2.cards)
    IN  [card |-> IF n = 0 THEN IndexError ELSE d2.cards[n],
         deck |-> [d2 EXCEPT !.cards = SubSeq(d2.cards, 1, n - 1)]]

\* draw shuffling before every pop
draw_ShufflesEveryCall(d, k) ==
    LET d2 == build_and_shuffle(d, k)
        n  == Len(d2.cards)
    IN  [card |-> IF n = 0 THEN IndexError ELSE d2.cards[n],
         deck |-> [d2 EXCEPT !.cards = SubSeq(d2.cards, 1, n - 1)]]

\* Deck.draw: the card returned and the deck left.  len < n_decks*52*0.25 is
\* compared in integers as 4*len < n_decks*52.  k is what rng.shuffle yields
\* should this call rebuild the deck; the operations of the game take one k
\* each, since a rebuild leaves 52 * n_decks cards and none of them draws the
\* 39 * n_decks cards it takes to reach a second one.
draw(d, k) ==
    LET d1 == IF Len(d.cards) = 0 THEN build_and_shuffle(d, k) ELSE d
        d2 == IF 4 * Len(d1.cards) < d1.n_decks * 52
              THEN build_and_shuffle(d1, k) ELSE d1
        n  == Len(d2.cards)
    IN  [card |-> IF n = 0 THEN IndexError ELSE d2.cards[n],
         deck |-> [d2 EXCEPT !.cards = SubSeq(d2.cards, 1, n - 1)]]

(***************************************************************************)
(* hand.py                                                                 *)
(***************************************************************************)
RECURSIVE RawSum(_)
RawSum(cards) ==
    IF cards = <<>> THEN 0
    ELSE VALUES[Head(cards).rank] + RawSum(Tail(cards))

RECURSIVE NumAces(_)
NumAces(cards) ==
    IF cards = <<>> THEN 0
    ELSE (IF Head(cards).rank = "A" THEN 1 ELSE 0) + NumAces(Tail(cards))

\* while total > 21 and an Ace still counts 11: demote one Ace to 1
RECURSIVE Demote(_, _)
Demote(t, aces) ==
    IF t > 21 /\ aces > 0 THEN Demote(t - 10, aces - 1)
    ELSE [total |-> t, aces11 |-> aces]

total(hand) == Demote(RawSum(hand), NumAces(hand)).total

is_soft(hand) == Demote(RawSum(hand), NumAces(hand)).aces11 > 0

is_bust(hand) == total(hand) > 21

is_blackjack(hand) == Len(hand) = 2 /\ total(hand) = 21

add(hand, card) == Append(hand, card)

(***************************************************************************)
(* game.py                                                                 *)
(***************************************************************************)
\* Rules.blackjack_pays default, in tenths (1.5)
DefaultBlackjackPays == 15

\* the Rules a caller may pass: either soft-17 policy, 3:2 or 6:5 blackjack
RulesChoices ==
    [dealer_hits_soft_17 : BOOLEAN, blackjack_pays : {DefaultBlackjackPays, 12}]

Outcome ==
    {"player_blackjack", "player_win", "dealer_win", "push", "player_bust",
     "dealer_bust"}

\* no value returned by settle() is held
NoResult == [outcome |-> "none", payout |-> 0]

\* deal_initial dealing the first two cards to the player
deal_initial_PlayerFirst(dk, k) ==
    LET d1 == draw(dk, k)
        d2 == draw(d1.deck, k)
        d3 == draw(d2.deck, k)
        d4 == draw(d3.deck, k)
    IN  [player |-> add(add(<<>>, d1.card), d2.card),
         dealer |-> add(add(<<>>, d3.card), d4.card),
         deck   |-> d4.deck]

\* BlackjackGame.deal_initial: both hands replaced by empty hands, then
\* player, dealer, player, dealer each receive deck.draw()
deal_initial(dk, k) ==
    LET d1 == draw(dk, k)
        d2 == draw(d1.deck, k)
        d3 == draw(d2.deck, k)
        d4 == draw(d3.deck, k)
    IN  [player |-> add(add(<<>>, d1.card), d3.card),
         dealer |-> add(add(<<>>, d2.card), d4.card),
         deck   |-> d4.deck]

\* the loop condition standing on 16
dealer_must_hit_Below16(hand, r) ==
    LET t      == total(hand)
        soft17 == t = 17 /\ is_soft(hand)
    IN  t < 16 \/ (soft17 /\ r.dealer_hits_soft_17)

\* the loop condition hitting a soft 17 whatever the rules say
dealer_must_hit_AlwaysH17(hand, r) ==
    LET t      == total(hand)
        soft17 == t = 17 /\ is_soft(hand)
    IN  t < 17 \/ soft17

\* the loop condition hitting every 17
dealer_must_hit_AtMost17(hand, r) ==
    LET t      == total(hand)
        soft17 == t = 17 /\ is_soft(hand)
    IN  t <= 17 \/ (soft17 /\ r.dealer_hits_soft_17)

\* the condition of the loop of BlackjackGame.dealer_play
dealer_must_hit(hand, r) ==
    LET t      == total(hand)
        soft17 == t = 17 /\ is_soft(hand)
    IN  t < 17 \/ (soft17 /\ r.dealer_hits_soft_17)

\* BlackjackGame.dealer_play: the loop, run to its break
RECURSIVE dealer_play(_, _, _, _)
dealer_play(hand, dk, r, k) ==
    IF dealer_must_hit(hand, r)
    THEN LET d == draw(dk, k) IN dealer_play(add(hand, d.card), d.deck, r, k)
    ELSE [dealer |-> hand, deck |-> dk]

\* one pass of the loop drawing a card without adding it to the hand
dealer_play_step_DrawNoAdd(hand, dk, r, k) ==
    IF dealer_must_hit(hand, r)
    THEN LET d == draw(dk, k) IN
         [dealer |-> hand, deck |-> d.deck, returned |-> FALSE]
    ELSE [dealer |-> hand, deck |-> dk, returned |-> TRUE]

\* one pass of the loop of BlackjackGame.dealer_play: a draw added to the
\* hand, or the break
dealer_play_step(hand, dk, r, k) ==
    IF dealer_must_hit(hand, r)
    THEN LET d == draw(dk, k) IN
         [dealer |-> add(hand, d.card), deck |-> d.deck, returned |-> FALSE]
    ELSE [dealer |-> hand, deck |-> dk, returned |-> TRUE]

\* settle naming an equal-totals result "tie"
settle_TieTag(p, d, r) ==
    IF is_blackjack(p) /\ is_blackjack(d)
        THEN [outcome |-> "push", payout |-> 0]
    ELSE IF is_blackjack(p)
        THEN [outcome |-> "player_blackjack", payout |-> r.blackjack_pays]
    ELSE IF is_blackjack(d)
        THEN [outcome |-> "dealer_win", payout |-> -10]
    ELSE IF is_bust(p)
        THEN [outcome |-> "player_bust", payout |-> -10]
    ELSE IF is_bust(d)
        THEN [outcome |-> "dealer_bust", payout |-> 10]
    ELSE IF total(p) > total(d)
        THEN [outcome |-> "player_win", payout |-> 10]
    ELSE IF total(p) < total(d)
        THEN [outcome |-> "dealer_win", payout |-> -10]
    ELSE [outcome |-> "tie", payout |-> 0]

\* settle with the busts checked before the naturals
settle_BustsFirst(p, d, r) ==
    IF is_bust(p)
        THEN [outcome |-> "player_bust", payout |-> -10]
    ELSE IF is_bust(d)
        THEN [outcome |-> "dealer_bust", payout |-> 10]
    ELSE IF is_blackjack(p) /\ is_blackjack(d)
        THEN [outcome |-> "push", payout |-> 0]
    ELSE IF is_blackjack(p)
        THEN [outcome |-> "player_blackjack", payout |-> r.blackjack_pays]
    ELSE IF is_blackjack(d)
        THEN [outcome |-> "dealer_win", payout |-> -10]
    ELSE IF total(p) > total(d)
        THEN [outcome |-> "player_win", payout |-> 10]
    ELSE IF total(p) < total(d)
        THEN [outcome |-> "dealer_win", payout |-> -10]
    ELSE [outcome |-> "push", payout |-> 0]

\* settle with the dealer's bust checked before the player's
settle_DealerBustFirst(p, d, r) ==
    IF is_blackjack(p) /\ is_blackjack(d)
        THEN [outcome |-> "push", payout |-> 0]
    ELSE IF is_blackjack(p)
        THEN [outcome |-> "player_blackjack", payout |-> r.blackjack_pays]
    ELSE IF is_blackjack(d)
        THEN [outcome |-> "dealer_win", payout |-> -10]
    ELSE IF is_bust(d)
        THEN [outcome |-> "dealer_bust", payout |-> 10]
    ELSE IF is_bust(p)
        THEN [outcome |-> "player_bust", payout |-> -10]
    ELSE IF total(p) > total(d)
        THEN [outcome |-> "player_win", payout |-> 10]
    ELSE IF total(p) < total(d)
        THEN [outcome |-> "dealer_win", payout |-> -10]
    ELSE [outcome |-> "push", payout |-> 0]

\* settle with a tie going to the dealer
settle_TieToDealer(p, d, r) ==
    IF is_blackjack(p) /\ is_blackjack(d)
        THEN [outcome |-> "push", payout |-> 0]
    ELSE IF is_blackjack(p)
        THEN [outcome |-> "player_blackjack", payout |-> r.blackjack_pays]
    ELSE IF is_blackjack(d)
        THEN [outcome |-> "dealer_win", payout |-> -10]
    ELSE IF is_bust(p)
        THEN [outcome |-> "player_bust", payout |-> -10]
    ELSE IF is_bust(d)
        THEN [outcome |-> "dealer_bust", payout |-> 10]
    ELSE IF total(p) > total(d)
        THEN [outcome |-> "player_win", payout |-> 10]
    ELSE [outcome |-> "dealer_win", payout |-> -10]

\* BlackjackGame.settle
settle(p, d, r) ==
    IF is_blackjack(p) /\ is_blackjack(d)
        THEN [outcome |-> "push", payout |-> 0]
    ELSE IF is_blackjack(p)
        THEN [outcome |-> "player_blackjack", payout |-> r.blackjack_pays]
    ELSE IF is_blackjack(d)
        THEN [outcome |-> "dealer_win", payout |-> -10]
    ELSE IF is_bust(p)
        THEN [outcome |-> "player_bust", payout |-> -10]
    ELSE IF is_bust(d)
        THEN [outcome |-> "dealer_bust", payout |-> 10]
    ELSE IF total(p) > total(d)
        THEN [outcome |-> "player_win", payout |-> 10]
    ELSE IF total(p) < total(d)
        THEN [outcome |-> "dealer_win", payout |-> -10]
    ELSE [outcome |-> "push", payout |-> 0]

\* cli.main: the dict indexed with the outcome of settle(), each text
\* reduced to the amount it shows
pretty ==
    [player_blackjack |-> "+1.5", player_win |-> "+1", dealer_win |-> "-1",
     push |-> "0", player_bust |-> "-1", dealer_bust |-> "+1"]

\* gui.OUTCOME_TEXT, each text reduced to the amount it shows
OUTCOME_TEXT ==
    [player_blackjack |-> "+1.5", player_win |-> "+1", dealer_win |-> "-1",
     push |-> "0", player_bust |-> "-1", dealer_bust |-> "+1"]

(***************************************************************************)
(* The game as a state machine.  pre holds the hands and the deck as they  *)
(* were when the operation named by last_op was called; result holds what  *)
(* that operation returned.  deck_io holds the deck count the Deck was     *)
(* constructed with and the card the last direct call of Deck.draw()       *)
(* returned.  session holds the state of the loop that drives the game    *)
(* (cli.main or the loop of gui.run_gui) and calls the engine calls that    *)
(* loop has made since the last deal_initial(), that call included.        *)
(***************************************************************************)
\* the game is driven by direct calls, by no driving loop
NoSession == [driver |-> "none"]

\* no card returned by a direct call of draw() is held
NoCard == [rank |-> "none", suit |-> "none"]

Snapshot == [player |-> player, dealer |-> dealer, cards |-> deck.cards]

\* BlackjackGame(deck=Deck(), rules=r): Deck() shuffles, both hands empty
Init ==
    /\ \E k \in 1..NShuffles : deck = NewDeck(1, k)
    /\ rules \in RulesChoices
    /\ player = <<>>
    /\ dealer = <<>>
    /\ result = NoResult
    /\ last_op = "init"
    /\ pre = [player |-> <<>>, dealer |-> <<>>, cards |-> deck.cards]
    /\ deck_io = [n_decks |-> 1, card |-> NoCard]
    /\ session = NoSession
    /\ calls = <<>>

\* game.deal_initial()
DealInitial ==
    \E k \in 1..NShuffles :
        LET g == deal_initial(deck, k) IN
        /\ player' = g.player
        /\ dealer' = g.dealer
        /\ deck' = g.deck
        /\ result' = NoResult
        /\ last_op' = "deal_initial"
        /\ pre' = Snapshot
        /\ UNCHANGED <<rules, deck_io, session, calls>>

\* a hit that gives the drawn card to the dealer
PlayerHit_AddsToDealer ==
    /\ Len(player) >= 2
    /\ ~is_bust(player)
    /\ \E k \in 1..NShuffles :
        LET d == draw(deck, k) IN
        /\ dealer' = add(dealer, d.card)
        /\ deck' = d.deck
    /\ result' = NoResult
    /\ last_op' = "hit"
    /\ pre' = Snapshot
    /\ UNCHANGED <<player, rules, deck_io, session, calls>>

\* the drivers' hit: game.player.add(game.deck.draw()), offered after the
\* deal while the player has not bust
PlayerHit ==
    /\ Len(player) >= 2
    /\ ~is_bust(player)
    /\ \E k \in 1..NShuffles :
        LET d == draw(deck, k) IN
        /\ player' = add(player, d.card)
        /\ deck' = d.deck
    /\ result' = NoResult
    /\ last_op' = "hit"
    /\ pre' = Snapshot
    /\ UNCHANGED <<dealer, rules, deck_io, session, calls>>

\* game.dealer_play()
DealerPlay ==
    \E k \in 1..NShuffles :
        LET g == dealer_play(dealer, deck, rules, k) IN
        /\ dealer' = g.dealer
        /\ deck' = g.deck
        /\ result' = NoResult
        /\ last_op' = "dealer_play"
        /\ pre' = Snapshot
        /\ UNCHANGED <<player, rules, deck_io, session, calls>>

\* a settle that collects the cards of both hands
Settle_ClearsHands ==
    /\ result' = settle(player, dealer, rules)
    /\ last_op' = "settle"
    /\ pre' = Snapshot
    /\ player' = <<>>
    /\ dealer' = <<>>
    /\ UNCHANGED <<deck, rules, deck_io, session, calls>>

\* game.settle()
Settle ==
    /\ result' = settle(player, dealer, rules)
    /\ last_op' = "settle"
    /\ pre' = Snapshot
    /\ UNCHANGED <<deck, player, dealer, rules, deck_io, session, calls>>

Next == DealInitial \/ PlayerHit \/ DealerPlay \/ Settle

Spec == Init /\ [][Next]_vars

(***************************************************************************)
(* Hands built by the caller, as the tests build them with Hand([...]).    *)
(***************************************************************************)
\* the order in which ranks are admitted to caller-built hands
InputRankOrder ==
    <<"A", "K", "6", "9", "5", "10", "Q", "2", "J", "7", "3", "8", "4">>

InputRanks ==
    {InputRankOrder[i] :
        i \in 1..(IF NInputRanks < Len(InputRankOrder)
                  THEN NInputRanks ELSE Len(InputRankOrder))}

\* the suit of the i-th card of a caller-built hand: the cards of one hand
\* differ; the two hands may hold equal cards, as with a Deck of several packs
InputSuit(i) == SUITS[((i - 1) % Len(SUITS)) + 1]

\* Hand(cards) for every sequence of at most MaxHandLen cards of input ranks
InputHands ==
    UNION {{[i \in 1..n |-> Card(f[i], InputSuit(i))] : f \in [1..n -> InputRanks]} :
              n \in 0..MaxHandLen}

\* a game whose two hands were set by the caller, settled by settle();
\* settle() does not read dealer_hits_soft_17, left at its default
InitHands ==
    /\ deck = NewDeck(1, 1)
    /\ rules \in {r \in RulesChoices : ~r.dealer_hits_soft_17}
    /\ player \in InputHands
    /\ dealer \in InputHands
    /\ result = NoResult
    /\ last_op = "init"
    /\ pre = [player |-> player, dealer |-> dealer, cards |-> deck.cards]
    /\ deck_io = [n_decks |-> 1, card |-> NoCard]
    /\ session = NoSession
    /\ calls = <<>>

SpecHands == InitHands /\ [][Settle]_vars

\* the numbers of cards a Deck of one pack holds between two calls of draw()
DeckLens == 12..52

\* a game whose dealer hand was set by the caller and whose Deck has been
\* drawn from, played by dealer_play(); dealer_play() does not read
\* blackjack_pays, left at its default
InitDealer ==
    /\ \E k \in 1..NShuffles, n \in DeckLens :
        deck = [n_decks |-> 1, cards |-> SubSeq(NewDeck(1, k).cards, 1, n)]
    /\ rules \in {r \in RulesChoices : r.blackjack_pays = DefaultBlackjackPays}
    /\ player = <<>>
    /\ dealer \in InputHands
    /\ result = NoResult
    /\ last_op = "init"
    /\ pre = [player |-> player, dealer |-> dealer, cards |-> deck.cards]
    /\ deck_io = [n_decks |-> 1, card |-> NoCard]
    /\ session = NoSession
    /\ calls = <<>>

SpecDealer == InitDealer /\ [][DealerPlay]_vars

\* one hand, grown with Hand.add from the empty Hand()
InitSolo ==
    /\ deck = NewDeck(1, 1)
    /\ rules \in {r \in RulesChoices : ~r.dealer_hits_soft_17
                                       /\ r.blackjack_pays = DefaultBlackjackPays}
    /\ player = <<>>
    /\ dealer = <<>>
    /\ result = NoResult
    /\ last_op = "init"
    /\ pre = [player |-> player, dealer |-> dealer, cards |-> deck.cards]
    /\ deck_io = [n_decks |-> 1, card |-> NoCard]
    /\ session = NoSession
    /\ calls = <<>>

\* player.add(card)
PlayerAdd ==
    /\ Len(player) < MaxSoloLen
    /\ \E r \in RankSet : player' = add(player, Card(r, InputSuit(Len(player) + 1)))
    /\ result' = NoResult
    /\ last_op' = "add"
    /\ pre' = Snapshot
    /\ UNCHANGED <<deck, dealer, rules, deck_io, session, calls>>

SpecHand == InitSolo /\ [][PlayerAdd]_vars

\* game.dealer_play(), one pass of its loop at a time: last_op is
\* "dealer_play_loop" inside the loop and "dealer_play" once it has returned;
\* pre is taken at the call
DealerLoopStep ==
    /\ last_op \in {"init", "dealer_play_loop"}
    /\ \E k \in 1..NShuffles :
        LET g == dealer_play_step(dealer, deck, rules, k) IN
        /\ dealer' = g.dealer
        /\ deck' = g.deck
        /\ last_op' = IF g.returned THEN "dealer_play" ELSE "dealer_play_loop"
    /\ pre' = IF last_op = "init" THEN Snapshot ELSE pre
    /\ result' = NoResult
    /\ UNCHANGED <<player, rules, deck_io, session, calls>>

\* deck sizes at the call of the stepwise dealer_play: a full deck, and the
\* two sizes around the quarter at which draw rebuilds
LoopDeckLens == {12, 13, 52}

\* the stepwise dealer_play starts on the dealer's two cards of deal_initial
InitDealerLoop ==
    /\ InitDealer
    /\ Len(dealer) = 2
    /\ Len(deck.cards) \in LoopDeckLens

\* the loop runs on: the game is single-threaded and nothing suspends it
SpecDealerLoop ==
    InitDealerLoop /\ [][DealerLoopStep]_vars /\ WF_vars(DealerLoopStep)

\* the deck counts a caller passes to Deck(n_decks)
DeckArgs == (-1)..MaxDecks

\* Deck(n_decks=n): a Deck on its own, drawn from directly
InitDeck ==
    /\ \E n \in DeckArgs, k \in 1..NShuffles :
        /\ deck = NewDeck(n, k)
        /\ deck_io = [n_decks |-> n, card |-> NoCard]
        /\ session = NoSession
        /\ calls = <<>>
    /\ rules \in {r \in RulesChoices : ~r.dealer_hits_soft_17
                                       /\ r.blackjack_pays = DefaultBlackjackPays}
    /\ player = <<>>
    /\ dealer = <<>>
    /\ result = NoResult
    /\ last_op = "init"
    /\ pre = [player |-> player, dealer |-> dealer, cards |-> deck.cards]

\* deck.draw()
Draw ==
    \E k \in 1..NShuffles :
        LET d == draw(deck, k) IN
        /\ deck' = d.deck
        /\ deck_io' = [deck_io EXCEPT !.card = d.card]
        /\ last_op' = "draw"
        /\ pre' = Snapshot
        /\ UNCHANGED <<player, dealer, rules, result, session, calls>>

SpecDeck == InitDeck /\ [][Draw]_vars

(***************************************************************************)
(* The driving loops.  One step of a loop draws fewer than twenty cards,   *)
(* and rng.shuffle is only called by a draw that rebuilds the deck: with   *)
(* twenty cards above the quarter left in the deck no draw of the step     *)
(* rebuilds, and its outcome does not depend on the generator.             *)
(***************************************************************************)
ShuffleOutcomes(d) ==
    IF 4 * (Len(d.cards) - 20) < 52 * d.n_decks THEN 1..NShuffles ELSE {1}

(***************************************************************************)
(* The console session, cli.main.  session.pc is the place main has        *)
(* reached: "loop" at the test of the while loop, "choice" blocked in the  *)
(* hit/stand prompt, "again" blocked in the replay prompt, "done" after    *)
(* the farewell line.  session.input is the last answer read, after        *)
(* strip().lower(); session.out is the last thing printed; the bankroll is *)
(* kept in tenths of the unit.                                             *)
(***************************************************************************)
\* bankroll = 10
CliStartBankroll == 100

\* Rules(dealer_hits_soft_17=False, blackjack_pays=1.5)
CliRules == [dealer_hits_soft_17 |-> FALSE, blackjack_pays |-> 15]

\* answers to the hit/stand prompt, after strip().lower()
ChoiceInputs == {"h", "stand", "x"}

\* answers to the replay prompt, after strip().lower()
AgainInputs == {"n", "no"}

\* main up to its first round
InitCli ==
    /\ \E k \in 1..NShuffles : deck = NewDeck(1, k)
    /\ rules = CliRules
    /\ player = <<>>
    /\ dealer = <<>>
    /\ result = NoResult
    /\ last_op = "init"
    /\ pre = [player |-> <<>>, dealer |-> <<>>, cards |-> deck.cards]
    /\ deck_io = [n_decks |-> 1, card |-> NoCard]
    /\ session = [driver |-> "cli", pc |-> "loop", bankroll |-> CliStartBankroll,
                  input |-> "", out |-> "banner"]
    /\ calls = <<>>

\* main from the last show_table of a round to the replay prompt: settle, the
\* payout added to the bankroll, the result line
CliSettle(p, d, dk, cs, inp) ==
    LET r == settle(p, d, rules) IN
    /\ player' = p
    /\ dealer' = d
    /\ deck' = dk
    /\ result' = r
    /\ last_op' = "settle"
    /\ pre' = [player |-> p, dealer |-> d, cards |-> dk.cards]
    /\ calls' = Append(cs, "settle")
    /\ session' = [session EXCEPT !.bankroll = @ + r.payout, !.pc = "again",
                                  !.input = inp, !.out = pretty[r.outcome]]

\* the loop test passed: the deal, and with a natural on either side the
\* dealer's play and the settlement
CliDeal ==
    /\ session.pc = "loop"
    /\ session.bankroll > 0
    /\ session.bankroll <= 10 * MaxCliBankroll
    /\ \E k \in ShuffleOutcomes(deck) :
        LET g == deal_initial(deck, k) IN
        IF is_blackjack(g.player) \/ is_blackjack(g.dealer)
        THEN LET h == dealer_play(g.dealer, g.deck, rules, k) IN
             CliSettle(g.player, h.dealer, h.deck,
                       <<"deal_initial", "dealer_play">>, session.input)
        ELSE /\ player' = g.player
             /\ dealer' = g.dealer
             /\ deck' = g.deck
             /\ result' = NoResult
             /\ last_op' = "deal_initial"
             /\ pre' = Snapshot
             /\ calls' = <<"deal_initial">>
             /\ session' = [session EXCEPT !.pc = "choice", !.out = "table"]
    /\ UNCHANGED <<rules, deck_io>>

\* the loop test failed: the farewell line
CliLoopExit ==
    /\ session.pc = "loop"
    /\ session.bankroll <= 0
    /\ session' = [session EXCEPT !.pc = "done", !.out = "farewell"]
    /\ UNCHANGED <<deck, player, dealer, rules, result, last_op, pre, deck_io, calls>>

\* the dealer's turn played whether or not the player has bust
cli_dealer_turn_Always(p, d, dk, cs, k) ==
    LET h == dealer_play(d, dk, rules, k) IN
    [dealer |-> h.dealer, deck |-> h.deck, calls |-> Append(cs, "dealer_play")]

\* main after the hit/stand loop: the dealer plays if the player has not bust
cli_dealer_turn(p, d, dk, cs, k) ==
    IF ~is_bust(p)
    THEN LET h == dealer_play(d, dk, rules, k) IN
         [dealer |-> h.dealer, deck |-> h.deck, calls |-> Append(cs, "dealer_play")]
    ELSE [dealer |-> d, deck |-> dk, calls |-> cs]

\* an answer to the hit/stand prompt
CliChoice ==
    /\ session.pc = "choice"
    /\ \E choice \in ChoiceInputs, k \in ShuffleOutcomes(deck) :
        IF choice \in {"h", "hit"}
        THEN LET d == draw(deck, k)
                 p == add(player, d.card)
                 t == cli_dealer_turn(p, dealer, d.deck, Append(calls, "hit"), k)
             IN  IF is_bust(p)
                 THEN CliSettle(p, t.dealer, t.deck, t.calls, choice)
                 ELSE /\ player' = p
                      /\ deck' = d.deck
                      /\ result' = NoResult
                      /\ last_op' = "hit"
                      /\ pre' = Snapshot
                      /\ calls' = Append(calls, "hit")
                      /\ session' = [session EXCEPT !.input = choice, !.out = "table"]
                      /\ UNCHANGED dealer
        ELSE IF choice \in {"s", "stand"}
        THEN LET t == cli_dealer_turn(player, dealer, deck, calls, k) IN
             CliSettle(player, t.dealer, t.deck, t.calls, choice)
        ELSE /\ session' = [session EXCEPT !.input = choice, !.out = "invalid"]
             /\ UNCHANGED <<deck, player, dealer, result, last_op, pre, calls>>
    /\ UNCHANGED <<rules, deck_io>>

\* the replay prompt going on to the loop test whatever the answer
CliAgain_IgnoresAnswer ==
    /\ session.pc = "again"
    /\ \E again \in AgainInputs :
        session' = [session EXCEPT !.pc = "loop", !.input = again]
    /\ UNCHANGED <<deck, player, dealer, rules, result, last_op, pre, deck_io, calls>>

\* an answer to the replay prompt
CliAgain ==
    /\ session.pc = "again"
    /\ \E again \in AgainInputs :
        session' = IF again = "n"
                   THEN [session EXCEPT !.pc = "done", !.input = again,
                                        !.out = "farewell"]
                   ELSE [session EXCEPT !.pc = "loop", !.input = again]
    /\ UNCHANGED <<deck, player, dealer, rules, result, last_op, pre, deck_io, calls>>

NextCli ==
    /\ session.driver = "cli"
    /\ (CliDeal \/ CliLoopExit \/ CliChoice \/ CliAgain)

SpecCli == InitCli /\ [][NextCli]_vars

(***************************************************************************)
(* The graphical session, the closures of gui.run_gui.  session holds the  *)
(* nonlocal variables bankroll (in tenths of the unit), current_bet,       *)
(* round_active, hide_dealer and show_bet_panel, the bet the round in play *)
(* was dealt with (session.dealt_bet), and the numbers of rounds dealt and *)
(* of bets placed since the session was started or reset.  The actions     *)
(* that only touch the display (cycle_theme, toggle_help) are left out; an *)
(* action that is ignored leaves every variable as it is.                  *)
(***************************************************************************)
\* START_BANKROLL = 50.0
START_BANKROLL == 500

DEFAULT_BET == 5

MIN_BET == 1

BET_STEP == 1

BET_CHIPS == {1, 5, 10, 25}

\* Rules(dealer_hits_soft_17=False, blackjack_pays=1.5)
GuiRules == [dealer_hits_soft_17 |-> FALSE, blackjack_pays |-> 15]

\* int(bankroll) of a bankroll kept in tenths: truncation towards zero
IntBankroll(b) == IF b >= 0 THEN b \div 10 ELSE -((-b) \div 10)

Max(a, b) == IF a >= b THEN a ELSE b

Min(a, b) == IF a <= b THEN a ELSE b

\* clamp_bet leaving the bankroll out
clamp_bet_NoCeiling(raw_value, b) ==
    IF raw_value <= 0 THEN 0 ELSE Max(MIN_BET, raw_value)

\* clamp_bet, b being the bankroll it reads
clamp_bet(raw_value, b) ==
    IF raw_value <= 0 THEN 0
    ELSE IF IntBankroll(b) < MIN_BET THEN 0
    ELSE Max(MIN_BET, Min(raw_value, IntBankroll(b)))

\* run_gui up to its event loop
InitGui ==
    /\ \E k \in 1..NShuffles : deck = NewDeck(1, k)
    /\ rules = GuiRules
    /\ player = <<>>
    /\ dealer = <<>>
    /\ result = NoResult
    /\ last_op = "init"
    /\ pre = [player |-> <<>>, dealer |-> <<>>, cards |-> deck.cards]
    /\ deck_io = [n_decks |-> 1, card |-> NoCard]
    /\ session = [driver |-> "gui", bankroll |-> START_BANKROLL,
                  current_bet |->
                      clamp_bet(Min(Max(DEFAULT_BET, MIN_BET),
                                    IntBankroll(START_BANKROLL)),
                                START_BANKROLL),
                  round_active |-> FALSE, hide_dealer |-> TRUE,
                  show_bet_panel |-> FALSE, dealt_bet |-> 0,
                  rounds |-> 0, bets |-> 0]
    /\ calls = <<>>

\* finish_round on the hands p and d and the deck dk, s being the session
\* variables as the caller left them
finish_round(p, d, dk, cs, s) ==
    LET r   == settle(p, d, rules)
        net == r.payout * s.current_bet
        b   == s.bankroll + net
    IN  /\ player' = p
        /\ dealer' = d
        /\ deck' = dk
        /\ result' = r
        /\ last_op' = "settle"
        /\ pre' = [player |-> p, dealer |-> d, cards |-> dk.cards]
        /\ calls' = Append(cs, "settle")
        /\ r.outcome \in DOMAIN OUTCOME_TEXT
        /\ session' = [s EXCEPT !.hide_dealer = FALSE,
                                !.bankroll = b,
                                !.round_active = FALSE,
                                !.current_bet = clamp_bet(@, b)]

\* an action handled without any effect
Ignored ==
    UNCHANGED <<deck, player, dealer, result, last_op, pre, calls, session>>

\* a hit that ends the round only on a bust
GuiHit_No21Stop ==
    /\ IF session.round_active
       THEN \E k \in ShuffleOutcomes(deck) :
            LET d == draw(deck, k)
                p == add(player, d.card)
            IN  IF is_bust(p)
                THEN finish_round(p, dealer, d.deck, Append(calls, "hit"), session)
                ELSE /\ player' = p
                     /\ deck' = d.deck
                     /\ result' = NoResult
                     /\ last_op' = "hit"
                     /\ pre' = Snapshot
                     /\ calls' = Append(calls, "hit")
                     /\ UNCHANGED <<dealer, session>>
       ELSE Ignored
    /\ UNCHANGED <<rules, deck_io>>

\* handle_action("hit")
GuiHit ==
    /\ IF session.round_active
       THEN \E k \in ShuffleOutcomes(deck) :
            LET d == draw(deck, k)
                p == add(player, d.card)
            IN  IF is_bust(p)
                THEN finish_round(p, dealer, d.deck, Append(calls, "hit"), session)
                ELSE IF total(p) = 21
                THEN LET h == dealer_play(dealer, d.deck, rules, k) IN
                     finish_round(p, h.dealer, h.deck,
                                  calls \o <<"hit", "dealer_play">>, session)
                ELSE /\ player' = p
                     /\ deck' = d.deck
                     /\ result' = NoResult
                     /\ last_op' = "hit"
                     /\ pre' = Snapshot
                     /\ calls' = Append(calls, "hit")
                     /\ UNCHANGED <<dealer, session>>
       ELSE Ignored
    /\ UNCHANGED <<rules, deck_io>>

\* stand handled whether or not a round is active
GuiStand_NoGate ==
    /\ \E k \in ShuffleOutcomes(deck) :
        LET h == dealer_play(dealer, deck, rules, k) IN
        finish_round(player, h.dealer, h.deck, Append(calls, "dealer_play"),
                     session)
    /\ UNCHANGED <<rules, deck_io>>

\* handle_action("stand")
GuiStand ==
    /\ IF session.round_active
       THEN \E k \in ShuffleOutcomes(deck) :
            LET h == dealer_play(dealer, deck, rules, k) IN
            finish_round(player, h.dealer, h.deck, Append(calls, "dealer_play"),
                         session)
       ELSE Ignored
    /\ UNCHANGED <<rules, deck_io>>

\* handle_action("next"): begin_round when no round is active
GuiNext ==
    /\ session.rounds < MaxGuiRounds
    /\ IF ~session.round_active
       THEN LET bet == clamp_bet(session.current_bet, session.bankroll)
                s0  == [session EXCEPT !.current_bet = bet]
            IN  IF session.bankroll < 10 * MIN_BET
                THEN /\ session' = [s0 EXCEPT !.round_active = FALSE,
                                              !.hide_dealer = FALSE]
                     /\ UNCHANGED <<deck, player, dealer, result, last_op, pre, calls>>
                ELSE IF bet < MIN_BET
                THEN /\ session' = s0
                     /\ UNCHANGED <<deck, player, dealer, result, last_op, pre, calls>>
                ELSE \E k \in ShuffleOutcomes(deck) :
                     LET g == deal_initial(deck, k)
                         s == [s0 EXCEPT !.show_bet_panel = FALSE,
                                         !.hide_dealer = TRUE,
                                         !.round_active = TRUE,
                                         !.dealt_bet = bet,
                                         !.rounds = @ + 1]
                     IN  IF is_blackjack(g.player) \/ is_blackjack(g.dealer)
                         THEN LET h == dealer_play(g.dealer, g.deck, rules, k) IN
                              finish_round(g.player, h.dealer, h.deck,
                                           <<"deal_initial", "dealer_play">>, s)
                         ELSE /\ player' = g.player
                              /\ dealer' = g.dealer
                              /\ deck' = g.deck
                              /\ result' = NoResult
                              /\ last_op' = "deal_initial"
                              /\ pre' = Snapshot
                              /\ calls' = <<"deal_initial">>
                              /\ session' = s
       ELSE Ignored
    /\ UNCHANGED <<rules, deck_io>>

\* handle_action("reset"): reset_session, with a new game on a new Deck
GuiReset ==
    /\ \E k \in 1..NShuffles : deck' = NewDeck(1, k)
    /\ player' = <<>>
    /\ dealer' = <<>>
    /\ result' = NoResult
    /\ last_op' = "init"
    /\ pre' = [player |-> <<>>, dealer |-> <<>>, cards |-> deck'.cards]
    /\ calls' = <<>>
    /\ session' = [session EXCEPT !.bankroll = START_BANKROLL,
                                  !.round_active = FALSE,
                                  !.hide_dealer = TRUE,
                                  !.show_bet_panel = FALSE,
                                  !.current_bet = clamp_bet(DEFAULT_BET, START_BANKROLL),
                                  !.dealt_bet = 0,
                                  !.rounds = 0,
                                  !.bets = 0]
    /\ UNCHANGED <<rules, deck_io>>

\* the bet actions of handle_action set current_bet to new_bet when no round
\* is active and the bet panel is shown
SetBet(new_bet) ==
    /\ session.bets < MaxGuiBets
    /\ IF ~session.round_active /\ session.show_bet_panel
       THEN /\ session' = [session EXCEPT !.current_bet = new_bet,
                                          !.bets = @ + 1]
            /\ UNCHANGED <<deck, player, dealer, result, last_op, pre, calls>>
       ELSE Ignored
    /\ UNCHANGED <<rules, deck_io>>

\* handle_action("bet_minus")
GuiBetMinus ==
    SetBet(clamp_bet(IF session.current_bet # 0
                     THEN session.current_bet - BET_STEP ELSE 0,
                     session.bankroll))

\* handle_action("bet_plus")
GuiBetPlus ==
    SetBet(clamp_bet(IF session.current_bet # 0
                     THEN session.current_bet + BET_STEP ELSE MIN_BET,
                     session.bankroll))

\* handle_action("bet_clear")
GuiBetClear == SetBet(0)

\* handle_action("bet_max")
GuiBetMax ==
    SetBet(clamp_bet(IntBankroll(session.bankroll), session.bankroll))

\* the bet panel toggled whether or not a round is active
GuiTogglePanel_NoGate ==
    /\ session' = [session EXCEPT !.show_bet_panel = ~@]
    /\ UNCHANGED <<deck, player, dealer, result, last_op, pre, calls>>
    /\ UNCHANGED <<rules, deck_io>>

\* handle_action("toggle_panel")
GuiTogglePanel ==
    /\ IF ~session.round_active
       THEN /\ session' = [session EXCEPT !.show_bet_panel = ~@]
            /\ UNCHANGED <<deck, player, dealer, result, last_op, pre, calls>>
       ELSE Ignored
    /\ UNCHANGED <<rules, deck_io>>

\* handle_chip_click
GuiChipClick ==
    /\ session.bets < MaxGuiBets
    /\ \E chip \in BET_CHIPS :
        LET proposed == IF session.current_bet # 0
                        THEN session.current_bet + chip ELSE chip
        IN  IF \/ session.round_active
               \/ ~session.show_bet_panel
               \/ session.bankroll < 10 * MIN_BET
            THEN Ignored
            ELSE IF 10 * proposed > session.bankroll
            THEN Ignored
            ELSE /\ session' = [session EXCEPT
                                   !.current_bet = clamp_bet(proposed, session.bankroll),
                                   !.bets = @ + 1]
                 /\ UNCHANGED <<deck, player, dealer, result, last_op, pre, calls>>
    /\ UNCHANGED <<rules, deck_io>>

NextGui ==
    /\ session.driver = "gui"
    /\ \/ GuiHit \/ GuiStand \/ GuiNext \/ GuiReset
       \/ GuiBetMinus \/ GuiBetPlus \/ GuiBetClear \/ GuiBetMax
       \/ GuiTogglePanel \/ GuiChipClick

SpecGui == InitGui /\ [][NextGui]_vars

\* a session of either driver
InitDrivers == InitCli \/ InitGui

NextDrivers == NextCli \/ NextGui

SpecDrivers == InitDrivers /\ [][NextDrivers]_vars

(***************************************************************************)
(* The properties.  The card values they use are written out from the      *)
(* rules of the game, independently of VALUES and of Hand.                 *)
(***************************************************************************)
RankSeq(hand) == [i \in 1..Len(hand) |-> hand[i].rank]

RankPos(r) == CHOOSE i \in 1..Len(RANKS) : RANKS[i] = r

\* an Ace valued 1, J/Q/K valued 10, 2-10 at face value
LowValue(r) == IF RankPos(r) > 10 THEN 10 ELSE RankPos(r)

RECURSIVE LowSum(_)
LowSum(hand) ==
    IF hand = <<>> THEN 0 ELSE LowValue(Head(hand).rank) + LowSum(Tail(hand))

AceCount(hand) == Cardinality({i \in 1..Len(hand) : hand[i].rank = "A"})

\* every sum obtainable by valuing each Ace independently as 1 or 11
AceSums(hand) == {LowSum(hand) + 10 * j : j \in 0..AceCount(hand)}

BestTotal(hand) ==
    LET ok == {t \in AceSums(hand) : t <= 21} IN
    IF ok = {} THEN LowSum(hand)
    ELSE CHOOSE t \in ok : \A u \in ok : u <= t

Natural(hand) == Len(hand) = 2 /\ BestTotal(hand) = 21

\* C1: Hand.total is the largest sum not exceeding 21 obtainable by valuing
\* each Ace as 1 or 11, or the all-Aces-as-1 sum when even that exceeds 21;
\* A,9 = 20, A,9,A = 21, A,9,A,9 = 20.
C1_TotalIsBest ==
    /\ total(player) = BestTotal(player)
    /\ RankSeq(player) = <<"A", "9">> => total(player) = 20
    /\ RankSeq(player) = <<"A", "9", "A">> => total(player) = 21
    /\ RankSeq(player) = <<"A", "9", "A", "9">> => total(player) = 20

C1_Witness ==
    /\ last_op = "add"
    /\ RankSeq(player) = <<"A", "9", "A", "9">>
    /\ total(player) = 20

\* C7: Hand.is_blackjack() is true exactly for a hand of two cards totalling
\* 21; a hand of three or more cards totalling 21 is not a blackjack.
C7_BlackjackIffTwoCard21 ==
    /\ is_blackjack(player) <=> Natural(player)
    /\ (Len(player) >= 3 /\ BestTotal(player) = 21) => ~is_blackjack(player)

C7_Witness ==
    /\ last_op = "add"
    /\ RankSeq(player) = <<"A", "9", "A">>
    /\ total(player) = 21
    /\ ~is_blackjack(player)

\* C8: Hand.is_soft() is true exactly when the hand holds an Ace and its
\* all-Aces-as-1 sum plus 10 does not exceed 21 (an Ace still counts 11); a
\* hand with no Ace or with every Ace demoted (A,6,K) is not soft.
C8_SoftIffAceCountsEleven ==
    /\ is_soft(player) <=> (AceCount(player) > 0 /\ LowSum(player) + 10 <= 21)
    /\ is_soft(player) => total(player) = LowSum(player) + 10
    /\ RankSeq(player) = <<"A", "6", "K">> => (~is_soft(player) /\ total(player) = 17)

C8_Witness ==
    /\ last_op = "add"
    /\ RankSeq(player) = <<"A", "6", "K">>
    /\ ~is_soft(player)

\* C9: Hand.is_bust() is true exactly when total > 21, which is exactly when
\* the all-Aces-as-1 sum exceeds 21; K,Q,2 is bust and A,A,9 is not.
C9_BustIffLowSumOver21 ==
    /\ is_bust(player) <=> total(player) > 21
    /\ is_bust(player) <=> LowSum(player) > 21
    /\ RankSeq(player) = <<"K", "Q", "2">> => is_bust(player)
    /\ RankSeq(player) = <<"A", "A", "9">> => ~is_bust(player)

C9_Witness ==
    /\ last_op = "add"
    /\ RankSeq(player) = <<"K", "Q", "2">>
    /\ is_bust(player)

Returned(o, pay) == result = [outcome |-> o, payout |-> pay]

\* C2: settle() resolves naturals first: both naturals give (push, 0.0); a
\* player natural alone gives (player_blackjack, rules.blackjack_pays), 1.5
\* by default, even against a dealer 20 or a 21 of three or more cards; a
\* dealer natural alone gives (dealer_win, -1.0), even against a player 21 of
\* three or more cards or a bust player.
C2_NaturalsFirst ==
    last_op = "settle" =>
        /\ (Natural(player) /\ Natural(dealer)) => Returned("push", 0)
        /\ (Natural(player) /\ ~Natural(dealer)) =>
              /\ Returned("player_blackjack", rules.blackjack_pays)
              /\ rules.blackjack_pays = DefaultBlackjackPays => result.payout = 15
        /\ (~Natural(player) /\ Natural(dealer)) => Returned("dealer_win", -10)

C2_Witness ==
    /\ last_op = "settle"
    /\ Natural(player)
    /\ Len(dealer) >= 3
    /\ BestTotal(dealer) = 21
    /\ Returned("player_blackjack", 15)

\* C3 as stated: whenever the player's hand is bust, settle() returns
\* (player_bust, -1.0) for every dealer hand, a dealer blackjack included.
C3_BustAlwaysPlayerBust ==
    (last_op = "settle" /\ LowSum(player) > 21) => Returned("player_bust", -10)

\* C3 amended: whenever the player's hand is bust, settle() returns
\* (player_bust, -1.0) for every dealer hand that is not a blackjack (a bust
\* dealer and a dealer below 17 included) and (dealer_win, -1.0) when the
\* dealer has a blackjack; the payout is -1.0 in both cases.
C3_BustLosesUnlessDealerNatural ==
    (last_op = "settle" /\ LowSum(player) > 21) =>
        /\ ~Natural(dealer) => Returned("player_bust", -10)
        /\ Natural(dealer) => Returned("dealer_win", -10)
        /\ result.payout = -10

C3_Witness ==
    /\ last_op = "settle"
    /\ LowSum(player) > 21
    /\ LowSum(dealer) > 21
    /\ Returned("player_bust", -10)

\* C4: with no blackjack on either side and the player not bust, settle()
\* returns (dealer_bust, +1.0) if the dealer is bust, and otherwise
\* (player_win, +1.0), (dealer_win, -1.0) or (push, 0.0) as the player's
\* total is above, below or equal to the dealer's.
C4_BustThenCompare ==
    (/\ last_op = "settle"
     /\ ~Natural(player)
     /\ ~Natural(dealer)
     /\ LowSum(player) <= 21) =>
        IF LowSum(dealer) > 21 THEN Returned("dealer_bust", 10)
        ELSE /\ BestTotal(player) > BestTotal(dealer) => Returned("player_win", 10)
             /\ BestTotal(player) < BestTotal(dealer) => Returned("dealer_win", -10)
             /\ BestTotal(player) = BestTotal(dealer) => Returned("push", 0)

C4_Witness ==
    /\ last_op = "settle"
    /\ Len(player) = 3
    /\ Len(dealer) = 3
    /\ BestTotal(player) = 21
    /\ BestTotal(dealer) = 21
    /\ Returned("push", 0)

\* the deck and the hand hold what the operation found
SameDealer == dealer = pre.dealer /\ deck.cards = pre.cards

SoftHand(hand) == AceCount(hand) > 0 /\ LowSum(hand) + 10 <= 21

Soft17(hand) == BestTotal(hand) = 17 /\ SoftHand(hand)

Hard17(hand) == BestTotal(hand) = 17 /\ ~SoftHand(hand)

\* the standing criterion under the rules in force
Stands(hand) ==
    BestTotal(hand) >= 17 /\ ~(Soft17(hand) /\ rules.dealer_hits_soft_17)

\* C5: after dealer_play() returns the dealer's total is at least 17, for
\* every initial dealer hand, every deck order and either soft-17 setting.
C5_DealerAtLeast17 ==
    last_op = "dealer_play" => BestTotal(dealer) >= 17

\* the dealer drew, and the Deck was rebuilt during the play
C5_Witness ==
    /\ last_op = "dealer_play"
    /\ Len(dealer) > Len(pre.dealer)
    /\ Len(deck.cards) > Len(pre.cards)
    /\ rules.dealer_hits_soft_17
    /\ BestTotal(dealer) >= 17

\* C6: with dealer_hits_soft_17 = False a dealer on a soft 17 draws no card;
\* with dealer_hits_soft_17 = True a dealer on a soft 17 draws one card and
\* the stopping condition is evaluated again (one card exactly when the hand
\* then stands), so dealer_play() never returns on a soft 17; a hard 17 is
\* never hit under either setting.
C6_Soft17Policy ==
    last_op = "dealer_play" =>
        /\ (Soft17(pre.dealer) /\ ~rules.dealer_hits_soft_17) => SameDealer
        /\ (Soft17(pre.dealer) /\ rules.dealer_hits_soft_17) =>
              /\ Len(dealer) >= Len(pre.dealer) + 1
              /\ SubSeq(dealer, 1, Len(pre.dealer)) = pre.dealer
              /\ Stands(SubSeq(dealer, 1, Len(pre.dealer) + 1)) =>
                    Len(dealer) = Len(pre.dealer) + 1
              /\ ~Stands(SubSeq(dealer, 1, Len(pre.dealer) + 1)) =>
                    Len(dealer) > Len(pre.dealer) + 1
        /\ rules.dealer_hits_soft_17 => ~Soft17(dealer)
        /\ Hard17(pre.dealer) => SameDealer

\* a soft 17 hit once under H17, the hand standing after the one card
C6_Witness ==
    /\ last_op = "dealer_play"
    /\ rules.dealer_hits_soft_17
    /\ Soft17(pre.dealer)
    /\ Len(dealer) = Len(pre.dealer) + 1
    /\ Len(deck.cards) + 1 = Len(pre.cards)

\* the last card of the deck's sequence is the first drawn
FromEnd(cards, i) == cards[Len(cards) - i + 1]

\* C10 as stated: deal_initial() leaves each hand with exactly two cards, and
\* with a deck whose sequence ends ..., c4, c3, c2, c1 the player holds
\* [c1, c3] and the dealer [c2, c4], in the first round and in every later one.
C10_DealsLastFourOfDeck ==
    last_op = "deal_initial" =>
        /\ Len(player) = 2
        /\ Len(dealer) = 2
        /\ player = <<FromEnd(pre.cards, 1), FromEnd(pre.cards, 3)>>
        /\ dealer = <<FromEnd(pre.cards, 2), FromEnd(pre.cards, 4)>>

\* the Deck holds, before the i-th draw of the deal, at least a quarter of
\* its 52 * n_decks cards, so that this draw does not rebuild it
NoRebuildBefore(i) == 4 * (Len(pre.cards) - (i - 1)) >= deck.n_decks * 52

\* the i-th card dealt: player, dealer, player, dealer
Dealt(i) == IF i % 2 = 1 THEN player[(i + 1) \div 2] ELSE dealer[i \div 2]

\* C10 amended: deal_initial() discards whatever both hands held and draws
\* exactly four cards in the order player, dealer, player, dealer, so that
\* each hand holds exactly two cards, in every round.  With a deck whose
\* sequence ends ..., c4, c3, c2, c1 the i-th card dealt is ci as long as the
\* deck has not fallen below a quarter of its full size before that draw:
\* with 16 cards or more (one pack) the player holds [c1, c3] and the dealer
\* [c2, c4] and those four cards have left the deck; from the draw that
\* rebuilds the Deck on, the cards dealt are the last of the new shuffle.
C10_DealsLastFourUnlessRebuilt ==
    last_op = "deal_initial" =>
        /\ Len(player) = 2
        /\ Len(dealer) = 2
        /\ \A i \in 1..4 : NoRebuildBefore(i) => Dealt(i) = FromEnd(pre.cards, i)
        /\ NoRebuildBefore(4) =>
              /\ player = <<FromEnd(pre.cards, 1), FromEnd(pre.cards, 3)>>
              /\ dealer = <<FromEnd(pre.cards, 2), FromEnd(pre.cards, 4)>>
              /\ deck.cards = SubSeq(pre.cards, 1, Len(pre.cards) - 4)
        /\ \A i \in 1..4 : (~NoRebuildBefore(i) /\ (i = 1 \/ NoRebuildBefore(i - 1))) =>
              \E k \in 1..NShuffles :
                  LET fresh == Shuffle(BuildDeck(deck.n_decks), k) IN
                  /\ \A j \in i..4 : Dealt(j) = FromEnd(fresh, j - i + 1)
                  /\ deck.cards = SubSeq(fresh, 1, Len(fresh) - (5 - i))

\* a later round: the hands of the round before, of more than two cards,
\* are replaced by the last four cards of a deck that was not rebuilt
C10_Witness ==
    /\ last_op = "deal_initial"
    /\ Len(pre.player) > 2
    /\ Len(pre.dealer) > 2
    /\ NoRebuildBefore(4)
    /\ player = <<FromEnd(pre.cards, 1), FromEnd(pre.cards, 3)>>
    /\ dealer = <<FromEnd(pre.cards, 2), FromEnd(pre.cards, 4)>>

\* the 52 cards of one pack
CardSet == {Card(RANKS[i], SUITS[j]) : i \in 1..Len(RANKS), j \in 1..Len(SUITS)}

Count(seq, c) == Cardinality({i \in 1..Len(seq) : seq[i] = c})

\* the Deck is below a quarter of its full size, the threshold of draw()
BelowQuarter(cards) == 4 * Len(cards) < deck.n_decks * 52

\* C11: Deck.draw() never fails and always returns a card, after any
\* sequence of draws: the pop never meets an empty or depleted sequence,
\* because a deck that is empty or below the threshold is rebuilt first.
C11_DrawAlwaysReturnsCard ==
    last_op = "draw" =>
        /\ deck_io.card \in CardSet
        /\ deck_io.card # IndexError
        /\ 4 * (Len(deck.cards) + 1) >= deck.n_decks * 52

\* a draw() called on a deck below the threshold
C11_Witness ==
    /\ last_op = "draw"
    /\ BelowQuarter(pre.cards)
    /\ deck_io.card \in CardSet
    /\ Len(deck.cards) = deck.n_decks * 52 - 1

\* C12: Deck.draw() rebuilds the deck exactly when the number of remaining
\* cards is below 25% of 52 * n_decks at the call (one deck: fewer than 13,
\* that is once more than 39 cards were drawn since the last rebuild, not
\* earlier); the rebuild resets the pool to n_decks copies of each of the 52
\* cards before the pop, leaving 52 * n_decks - 1 cards.
C12_RebuildExactlyBelowQuarter ==
    last_op = "draw" =>
        /\ BelowQuarter(pre.cards) =>
              /\ Len(deck.cards) = deck.n_decks * 52 - 1
              /\ \A c \in CardSet :
                    Count(Append(deck.cards, deck_io.card), c) = deck.n_decks
        /\ ~BelowQuarter(pre.cards) =>
              /\ deck.cards = SubSeq(pre.cards, 1, Len(pre.cards) - 1)
              /\ deck_io.card = pre.cards[Len(pre.cards)]
        /\ deck.n_decks = 1 =>
              (BelowQuarter(pre.cards) <=> 52 - Len(pre.cards) > 39)

\* a draw() called with exactly a quarter of the deck left: no rebuild
C12_Witness ==
    /\ last_op = "draw"
    /\ Len(pre.cards) = 13 * deck.n_decks
    /\ deck.cards = SubSeq(pre.cards, 1, Len(pre.cards) - 1)
    /\ deck_io.card = pre.cards[Len(pre.cards)]

\* C19: a Deck constructed with a non-positive deck count is clamped to one
\* deck (n_decks = 1, 52 cards); a positive count n is kept and yields 52 * n
\* cards.
C19_DeckCountClamped ==
    /\ deck_io.n_decks <= 0 => deck.n_decks = 1
    /\ deck_io.n_decks > 0 => deck.n_decks = deck_io.n_decks
    /\ last_op = "init" =>
          /\ Len(deck.cards) = 52 * deck.n_decks
          /\ \A c \in CardSet : Count(deck.cards, c) = deck.n_decks

C19_Witness ==
    /\ last_op = "init"
    /\ deck_io.n_decks < 0
    /\ deck.n_decks = 1
    /\ Len(deck.cards) = 52

\* the dealer's total went down on some draw of the play
TotalFellOnADraw ==
    \E i \in Len(pre.dealer)..(Len(dealer) - 1) :
        i >= 1 /\ BestTotal(SubSeq(dealer, 1, i + 1)) < BestTotal(SubSeq(dealer, 1, i))

\* C13: dealer_play() always terminates when drawing from a replenishing
\* Deck: for every initial dealer hand, deck order and rules setting the loop
\* stops after finitely many draws, even though the total can fall on a draw,
\* and every pass of the loop that draws raises the all-Aces-as-1 sum by at
\* least 1.
C13_DealerPlayTerminates ==
    /\ <>(last_op = "dealer_play")
    /\ [][last_op' = "dealer_play_loop"
            => LowSum(dealer') >= LowSum(dealer) + 1]_vars

\* a play that has returned after a draw on which the total fell
C13_Witness ==
    /\ last_op = "dealer_play"
    /\ Len(dealer) > Len(pre.dealer)
    /\ TotalFellOnADraw

\* C14: dealer_play() called when the dealer already meets the standing
\* criterion (total >= 17 and not a soft 17 that must be hit) draws no card
\* and leaves the deck, the dealer's hand and the player's hand unchanged;
\* hence dealer_play() called straight after dealer_play() changes nothing.
C14_DealerPlayNoOpWhenStanding ==
    [][(last_op' = "dealer_play" /\ (Stands(dealer) \/ last_op = "dealer_play"))
          => UNCHANGED <<dealer, deck, player, rules>>]_vars

\* dealer_play() called again on a dealer who had drawn to a stand, in a
\* round with a dealt player: nothing moved
C14_Witness ==
    /\ last_op = "dealer_play"
    /\ Len(pre.dealer) >= 3
    /\ Stands(pre.dealer)
    /\ Len(player) >= 2
    /\ SameDealer
    /\ player = pre.player

\* C15: settle() is a pure query: it changes neither hand, nor the deck, nor
\* the rules, and settle() called again in the same state returns the same
\* (outcome, payout) pair.
C15_SettleIsPureQuery ==
    [][last_op' = "settle" =>
          /\ UNCHANGED <<player, dealer, deck, rules>>
          /\ last_op = "settle" => result' = result]_vars

\* a settled round in which the player hit and the dealer drew
C15_Witness ==
    /\ last_op = "settle"
    /\ Len(player) >= 3
    /\ Len(dealer) >= 3
    /\ result.outcome \in Outcome
    /\ pre = Snapshot

\* the payout that goes with an outcome tag, in tenths of the bet
PayoutOfTag(o) ==
    CASE o = "player_blackjack"             -> rules.blackjack_pays
      [] o \in {"player_win", "dealer_bust"} -> 10
      [] o \in {"dealer_win", "player_bust"} -> -10
      [] o = "push"                         -> 0

\* C16: in every reachable state settle() returns exactly one of the six
\* outcome tags, and the payout is a function of the tag alone:
\* player_blackjack gives rules.blackjack_pays, player_win and dealer_bust
\* give +1.0, dealer_win and player_bust give -1.0, push gives 0.0; so the
\* outcome is a key of both drivers' outcome-to-text lookups.
C16_OutcomeClosedAndPayoutByTag ==
    last_op = "settle" =>
        /\ result.outcome \in
              {"player_blackjack", "player_win", "dealer_win", "push",
               "player_bust", "dealer_bust"}
        /\ result.payout = PayoutOfTag(result.outcome)
        /\ result.outcome \in DOMAIN pretty
        /\ result.outcome \in DOMAIN OUTCOME_TEXT

\* a dealt round settled on equal totals without naturals
C16_Witness ==
    /\ last_op = "settle"
    /\ Len(player) >= 2
    /\ ~Natural(player)
    /\ BestTotal(player) = BestTotal(dealer)
    /\ Returned("push", 0)

\* the next m draws find at least a quarter of the cards in the deck, so
\* none of them rebuilds it
DrawsWithoutRebuild(m) ==
    m = 0 \/ 4 * (Len(deck.cards) - (m - 1)) >= 52 * deck.n_decks

\* C17 as stated: two games with the same deck order, the same Rules and the
\* same decisions go through identical hands: from every reachable state the
\* deal, the hit and the dealer's play give the same hands and deck whatever
\* the Deck's random source produces.
C17_RoundReproducible ==
    \A k1, k2 \in 1..NShuffles :
        /\ deal_initial(deck, k1) = deal_initial(deck, k2)
        /\ draw(deck, k1) = draw(deck, k2)
        /\ dealer_play(dealer, deck, rules, k1) = dealer_play(dealer, deck, rules, k2)

\* C17, amended: the deal, the hit and the dealer's play give the same hands
\* and deck whatever the Deck's random source produces, provided none of
\* their draws rebuilds the deck; a draw that finds less than a quarter of
\* the cards reshuffles with the Deck's own random source.
C17_ReproducibleUnlessRebuilt ==
    \A k1, k2 \in 1..NShuffles :
        LET g1   == dealer_play(dealer, deck, rules, k1)
            drew == Len(g1.dealer) - Len(dealer)
        IN  /\ DrawsWithoutRebuild(4) =>
                  deal_initial(deck, k1) = deal_initial(deck, k2)
            /\ DrawsWithoutRebuild(1) => draw(deck, k1) = draw(deck, k2)
            /\ DrawsWithoutRebuild(drew) =>
                  g1 = dealer_play(dealer, deck, rules, k2)

\* a dealer's play of two draws or more without a rebuild, the same for
\* every outcome of the random source
C17_Witness ==
    /\ last_op = "dealer_play"
    /\ Len(player) >= 2
    /\ Len(dealer) >= Len(pre.dealer) + 2
    /\ Len(deck.cards) + Len(dealer) = Len(pre.cards) + Len(pre.dealer)
    /\ \A k \in 1..NShuffles :
          dealer_play(pre.dealer, [deck EXCEPT !.cards = pre.cards], rules, k)
              = [dealer |-> dealer, deck |-> deck]

\* C18: a card drawn from the deck is transferred to the hand that receives
\* it: in every reachable state, a rebuild of the deck in the middle of a
\* round included, each (rank, suit) occurs at most n_decks times across the
\* deck and both hands; with a single deck no card of a hand is in the deck
\* and no card is held twice.
C18_CardsTransferred ==
    \A c \in CardSet :
        Count(deck.cards, c) + Count(player, c) + Count(dealer, c) <= deck.n_decks

\* C20: settle() on a game in which no card has been dealt (both hands
\* empty, total 0) returns the push-like result (push, 0.0).
C20_SettleBeforeDealIsPush ==
    (last_op = "settle" /\ player = <<>> /\ dealer = <<>>) =>
        /\ BestTotal(player) = 0
        /\ BestTotal(dealer) = 0
        /\ Returned("push", 0)

\* settle() called on the game as constructed: the full deck, no card dealt
C20_Witness ==
    /\ last_op = "settle"
    /\ player = <<>>
    /\ dealer = <<>>
    /\ Len(deck.cards) = 52 * deck.n_decks
    /\ result.outcome = "push"

IsPrefix(a, b) == Len(a) <= Len(b) /\ SubSeq(b, 1, Len(a)) = a

\* C21: within a round hands are append-only: every operation other than
\* deal_initial() leaves each hand with its earlier card sequence as a
\* prefix; dealer_play() never changes the player's hand, a player hit never
\* changes the dealer's hand, and no operation changes the Rules.
C21_HandsAppendOnly ==
    [][/\ rules' = rules
       /\ last_op' # "deal_initial" =>
              IsPrefix(player, player') /\ IsPrefix(dealer, dealer')
       /\ last_op' = "dealer_play" => player' = player
       /\ last_op' = "hit" => dealer' = dealer]_vars

\* a hit after the dealer has drawn: the player's hand grew by one card, the
\* dealer's hand is as it was
C21_Witness ==
    /\ last_op = "hit"
    /\ Len(dealer) >= 3
    /\ dealer = pre.dealer
    /\ Len(player) = Len(pre.player) + 1
    /\ IsPrefix(pre.player, player)

\* C30: in the console session (bankroll 10 at the start, fixed bet of 1
\* unit, blackjack paying 1.5) a round is never started with a bankroll
\* smaller than the bet, so the bankroll is never negative.
C30_CliBankrollCoversBet ==
    /\ session.bankroll >= 0
    /\ session.pc = "choice" => session.bankroll >= 10

\* the game object and the bankroll are as they were
SameGame ==
    /\ UNCHANGED <<deck, player, dealer, rules, result, calls>>
    /\ session'.bankroll = session.bankroll

\* C24: the console session ends cleanly: answering 'n' to the replay prompt
\* ends the loop with no further deal_initial() and the farewell line is
\* printed, after which nothing more happens; any other answer goes back to
\* the loop test, which starts another round only while bankroll > 0 and
\* otherwise prints the farewell; an invalid hit/stand choice changes no game
\* state and prompts again.
C24_CliEndsCleanly ==
    /\ [](session.pc = "done" <=> session.out = "farewell")
    /\ [][/\ session.pc # "done"
          /\ (session.pc = "again" /\ session'.input = "n") =>
                 session'.pc = "done" /\ SameGame
          /\ (session.pc = "again" /\ session'.input # "n") =>
                 session'.pc = "loop" /\ SameGame
          /\ session.pc = "loop" =>
                 IF session.bankroll > 0
                 THEN /\ session'.pc \in {"choice", "again"}
                      /\ calls'[1] = "deal_initial"
                      /\ Len(player') = 2
                 ELSE session'.pc = "done" /\ SameGame
          /\ (session.pc = "choice" /\ session'.input \notin {"h", "hit", "s", "stand"}) =>
                 /\ session'.pc = "choice"
                 /\ session'.out = "invalid"
                 /\ SameGame]_vars

\* the session ended by the answer 'n' after a round the player had played,
\* with bankroll left
C24_Witness ==
    /\ session.driver = "cli"
    /\ session.pc = "done"
    /\ session.input = "n"
    /\ session.out = "farewell"
    /\ session.bankroll > 0
    /\ Len(calls) >= 3

\* the number of calls of the operation op the driving loop has made since
\* the last deal_initial()
CallCount(op) == Cardinality({i \in 1..Len(calls) : calls[i] = op})

\* the player can still hit or stand
PlayerToAct ==
    \/ session.driver = "cli" /\ session.pc = "choice"
    \/ session.driver = "gui" /\ session.round_active

\* C22: in both driving loops dealer_play() is never invoked in a round in
\* which the player has bust: the hit that busts the player goes straight to
\* settlement, with the dealer's hand still at its two initial cards.
C22_NoDealerPlayAfterBust ==
    LowSum(player) > 21 =>
        /\ CallCount("dealer_play") = 0
        /\ Len(dealer) = 2
        /\ Len(calls) >= 3
        /\ calls[Len(calls)] = "settle"
        /\ calls[Len(calls) - 1] = "hit"
        /\ Returned("player_bust", -10)

\* a round of the graphical session settled on the player's bust
C22_Witness ==
    /\ session.driver = "gui"
    /\ LowSum(player) > 21
    /\ calls[Len(calls)] = "settle"
    /\ Len(dealer) = 2
    /\ ~session.round_active

\* C23: in both driving loops settle() is called once per round: never twice
\* between two consecutive deal_initial() calls, never while the player can
\* still hit or stand, and, whenever the player has not bust, only after
\* dealer_play() of that round has returned.
C23_SettleOncePerRound ==
    /\ CallCount("settle") <= 1
    /\ PlayerToAct => CallCount("settle") = 0
    /\ CallCount("settle") = 1 =>
          /\ calls[1] = "deal_initial"
          /\ calls[Len(calls)] = "settle"
          /\ last_op = "settle"
          /\ LowSum(player) <= 21 =>
                /\ calls[Len(calls) - 1] = "dealer_play"
                /\ CallCount("dealer_play") = 1

\* a round of the console session settled after two hits and the dealer's
\* play
C23_Witness ==
    /\ session.driver = "cli"
    /\ session.pc = "again"
    /\ calls = <<"deal_initial", "hit", "hit", "dealer_play", "settle">>
    /\ result.outcome \in Outcome

\* the dealer's two cards of the deal
DealtDealer == SubSeq(dealer, 1, 2)

\* C25: when either hand is a natural after deal_initial(), the
\* dealer_play() both drivers invoke before settle() does not change the
\* settlement: settle() returns what it returns directly after the deal
\* (push for two naturals, player_blackjack for the player's alone,
\* dealer_win for the dealer's alone); if the dealer has the natural,
\* dealer_play() draws no card at all.
C25_DealerPlayKeepsNaturalSettlement ==
    (/\ CallCount("settle") = 1
     /\ Len(player) = 2
     /\ Natural(player) \/ Natural(DealtDealer)) =>
        /\ calls = <<"deal_initial", "dealer_play", "settle">>
        /\ (Natural(player) /\ Natural(DealtDealer)) => Returned("push", 0)
        /\ (Natural(player) /\ ~Natural(DealtDealer)) =>
              Returned("player_blackjack", rules.blackjack_pays)
        /\ (~Natural(player) /\ Natural(DealtDealer)) => Returned("dealer_win", -10)
        /\ Natural(DealtDealer) => dealer = DealtDealer

\* a player natural settled after the dealer drew
C25_Witness ==
    /\ CallCount("settle") = 1
    /\ Natural(player)
    /\ Len(dealer) >= 3
    /\ Returned("player_blackjack", 15)

\* C26: after dealer_play() returns on a dealer hand of the two cards of
\* the deal, the dealer's total lies in 17..26, for every deck order and
\* either soft-17 setting.
C26_DealerFinalTotalRange ==
    (last_op = "dealer_play" /\ Len(pre.dealer) = 2) =>
        /\ BestTotal(dealer) >= 17
        /\ BestTotal(dealer) <= 26

\* the dealer drew from the two dealt cards up to the largest total, 26
C26_Witness ==
    /\ last_op = "dealer_play"
    /\ Len(pre.dealer) = 2
    /\ Len(pre.player) = 2
    /\ Len(dealer) >= 3
    /\ BestTotal(dealer) = 26

\* the bet of the graphical session is covered by the bankroll b (in tenths)
BetCovered(bet, b) == MIN_BET <= bet /\ 10 * bet <= b

\* C27: in the graphical session the bankroll is never negative and a round
\* is only dealt with a covered bet: the bankroll is at least 0; while no
\* round is active the bet is 0 or within MIN_BET..int(bankroll); while a
\* round is active MIN_BET <= current_bet <= bankroll; and every deal is made
\* with a bet of at least MIN_BET that the bankroll of that moment covers.
C27_GuiBankrollCoversBet ==
    /\ [](/\ session.bankroll >= 0
          /\ ~session.round_active =>
                \/ session.current_bet = 0
                \/ /\ MIN_BET <= session.current_bet
                   /\ session.current_bet <= session.bankroll \div 10
          /\ session.round_active =>
                BetCovered(session.current_bet, session.bankroll))
    /\ [][session'.rounds > session.rounds =>
             /\ session'.dealt_bet = session'.current_bet
                    \/ ~session'.round_active
             /\ BetCovered(session'.dealt_bet, session.bankroll)]_vars

\* the whole bankroll was bet and lost: the bankroll is 0 and the bet was
\* clamped to 0
C27_Witness ==
    /\ session.driver = "gui"
    /\ session.bankroll = 0
    /\ session.current_bet = 0
    /\ session.dealt_bet = START_BANKROLL \div 10
    /\ ~session.round_active
    /\ last_op = "settle"

\* the session was reset by this step
WasReset == calls' = <<>> /\ session'.rounds = 0 /\ session'.bets = 0

\* C28: the graphical actions are gated by the round state.  With no round
\* active nothing is drawn and nothing is settled: the only calls made are
\* those of a new deal.  While a round is active no deal is made, no bet is
\* placed and the bet panel stays closed, so current_bet is the bet the round
\* was dealt with from deal_initial() until the settlement, which pays on
\* that bet.
C28_GuiActionsGated ==
    /\ [](session.round_active =>
             /\ session.current_bet = session.dealt_bet
             /\ ~session.show_bet_panel)
    /\ [][/\ ~session.round_active =>
               \/ UNCHANGED <<deck, player, dealer, result, last_op, calls>>
               \/ WasReset
               \/ /\ session'.rounds = session.rounds + 1
                  /\ calls'[1] = "deal_initial"
                  /\ CallCount("hit")' = 0
          /\ session.round_active =>
               /\ session'.rounds = session.rounds \/ WasReset
               /\ session'.bets = session.bets \/ WasReset
               /\ session'.show_bet_panel = session.show_bet_panel
               /\ session'.dealt_bet = session.dealt_bet \/ WasReset
               /\ session'.round_active =>
                      session'.current_bet = session.current_bet
               /\ last_op' = "settle" =>
                      session'.bankroll =
                          session.bankroll + result'.payout * session.dealt_bet]_vars

\* a round in play after a hit, dealt with a bet chosen in the bet panel
C28_Witness ==
    /\ session.driver = "gui"
    /\ session.round_active
    /\ last_op = "hit"
    /\ session.bets = 1
    /\ session.current_bet # DEFAULT_BET
    /\ session.current_bet = session.dealt_bet

\* C29: in the graphical session, whenever a round is still active after an
\* action has been handled, the player's hand is live and the dealer is
\* untouched: neither hand is a blackjack, the player's total is at most 20,
\* the dealer holds exactly its two initial cards and hide_dealer is true; a
\* hit that reaches exactly 21 or busts ends the round in the same action.
C29_ActiveRoundIsLive ==
    /\ [](session.round_active =>
             /\ ~Natural(player)
             /\ ~Natural(dealer)
             /\ Len(player) >= 2
             /\ BestTotal(player) <= 20
             /\ Len(dealer) = 2
             /\ session.hide_dealer
             /\ CallCount("dealer_play") = 0
             /\ CallCount("settle") = 0)
    /\ [][(/\ session.round_active
           /\ Len(player') = Len(player) + 1
           /\ BestTotal(player') >= 21) =>
              /\ ~session'.round_active
              /\ ~session'.hide_dealer
              /\ last_op' = "settle"]_vars

\* a hit reached exactly 21: the dealer played and the round was settled in
\* the same action
C29_Witness ==
    /\ session.driver = "gui"
    /\ ~session.round_active
    /\ Len(player) >= 3
    /\ BestTotal(player) = 21
    /\ calls[Len(calls) - 2] = "hit"
    /\ calls[Len(calls) - 1] = "dealer_play"
    /\ last_op = "settle"

====
